---- MODULE Spec2Model ----
(***************************************************************************)
(* State-machine model of the roulette application (the variant of the     *)
(* script with draft/confirm editing, src/unnamed/part_000).               *)
(*                                                                         *)
(* A catalog item is modelled by its key; arrays are sequences; the        *)
(* key-value store is a function from its string keys to an optional       *)
(* value (<<>> for getItem() = null, <<v>> for a stored v).  DOM elements  *)
(* the handlers read or write are variables of their own: the script keeps *)
(* the pending ("draft") roster and the state of every checkbox in the     *)
(* DOM.  Japanese texts of the source are written in ASCII here            *)
(* ("member1" for the placeholder name of member 1).                       *)
(***************************************************************************)
EXTENDS Integers, Sequences, FiniteSets, TLC

VARIABLES
    data,                   \* [type -> sequence of item keys]
    selectedItems,          \* [type -> sequence of keys]: the applied filter
    tempFilterSelections,   \* [type -> sequence of keys]: the draft filter
    currentResults,         \* [slot -> item], slots "common-rule", "1-weapon", ...
    currentTeams,           \* [member index -> "alpha" | "bravo"]
    memberStateSnapshot,    \* <<>> ({} in the source) or <<[memberCount, teamDivisionEnabled, memberNames]>>
    localStorage,           \* [store key -> <<>> | <<value>>]
    memberCountInput,       \* value of #memberCount (a string)
    memberNameInputs,       \* [i -> value of #memberName<i>], one per rendered input
    teamDivisionToggle,     \* #teamDivisionToggle.checked
    filterBoxes,            \* [type -> [key -> checked]]: the rendered filter checkboxes
    selectAllBox,           \* [type -> #selectAll-<type>.checked]
    applyFilterSettingsBtn, \* style.display of the Apply button ("" until the script sets it)
    confirmMembersBtn,      \* style.display of the Confirm button
    resultCards,            \* indices i with a rendered #result-<i> card
    loadingStatus,          \* text of #loadingStatus ("" until the script sets it)
    loadState,              \* loadDataFromCacheOrAPI: "fetching" | "done" | "failed" ("uncaught": never called)
    refreshInFlight,        \* number of refreshData() calls awaiting their fetch
    timers,                 \* per draw call with callbacks left: its setTimeout(..., 10) callbacks not yet run
    alerted,                \* types the last draw intent raised an alert() for
    fetchError,             \* the error fetchAndCacheData rethrew in the last step (<<>>: none)
    writeFailed             \* history: a localStorage.setItem has thrown since the page was loaded

vars == <<data, selectedItems, tempFilterSelections, currentResults, currentTeams,
          memberStateSnapshot, localStorage, memberCountInput, memberNameInputs,
          teamDivisionToggle, filterBoxes, selectAllBox, applyFilterSettingsBtn,
          confirmMembersBtn, resultCards, loadingStatus, loadState, refreshInFlight,
          timers, alerted, fetchError, writeFailed>>

filterVars == <<selectedItems, tempFilterSelections, filterBoxes, selectAllBox,
                applyFilterSettingsBtn>>
rosterVars == <<memberStateSnapshot, memberCountInput, memberNameInputs,
                teamDivisionToggle, confirmMembersBtn>>

-----------------------------------------------------------------------------
(* Bounds of the model *)

MaxMembers == 2     \* largest member count the user enters
MaxInFlight == 1    \* refreshData() calls outstanding at the same time
MaxPendingDraws == 1 \* draw calls whose deferred result writes are outstanding
MaxOverlap == 2     \* refreshData() calls outstanding where refreshes overlap

-----------------------------------------------------------------------------
(* Constants of the script *)

Types == {"rule", "stage", "weapon"}
TypeOrder == <<"rule", "stage", "weapon">>

CACHE_KEYS == [rule |-> "spla-rules", stage |-> "spla-stages", weapon |-> "spla-weapons",
               selectedItems |-> "spla-selected-items"]

EXCLUDED_ITEMS == [rule |-> {"tricolor"}, stage |-> {"grand_arena"}]

\* What the three remote resources may answer with a success status.
API_URLS ==
    [rule   |-> {<<"r1", "tricolor">>, <<"tricolor">>},
     stage  |-> {<<"s1", "grand_arena">>},
     weapon |-> {<<"w1", "w2">>, <<"w1">>}]

EmptyByType == [t \in Types |-> <<>>]

LoadErrorText == "load-error"        \* 'エラー: データを読み込めません'
RefreshErrorText == "refresh-failed" \* '更新に失敗しました'

-----------------------------------------------------------------------------
(* Values *)

None == <<>>
Some(v) == <<v>>

Includes(s, k) == \E i \in 1..Len(s) : s[i] = k
Keys(s) == {s[i] : i \in 1..Len(s)}
Filter(s, Keep(_)) == SelectSeq(s, Keep)

\* JSON.stringify / JSON.parse of the arrays and objects the script stores.
\* A stored blob is [json |-> v] for the JSON text of v and [text |-> s] for a
\* text s that JSON.parse rejects.
JSONstringify(v) == [json |-> v]
JSONparse(text) == text.json
Unparsable == [text |-> "{"]
EmptyText == [text |-> ""]
IsJSON(text) == "json" \in DOMAIN text
\* `if (blob)` for a stored blob: neither null nor the empty text.
BlobTruthy(opt) == opt # None /\ opt # Some(EmptyText)

\* String(n) and parseInt(text) for the texts a count input can hold.
Digits == <<"0", "1", "2", "3", "4", "5", "6", "7", "8", "9">>
NaN == -1000
String(n) == IF n \in 0..9 THEN Digits[n + 1] ELSE "NaN"
ParseInt(text) ==
    IF \E n \in 0..9 : Digits[n + 1] = text
    THEN CHOOSE n \in 0..9 : Digits[n + 1] = text
    ELSE NaN
\* i = 1; i <= n; i++ : the indices the loops over the members visit (none for NaN).
UpTo(n) == IF n = NaN THEN {} ELSE 1..n

MemberNameKey(i) == "memberName" \o String(i)
Placeholder(i) == "member" \o String(i)

StoreKeys ==
    {CACHE_KEYS[k] : k \in DOMAIN CACHE_KEYS} \cup {"memberCount", "teamDivisionToggle"}
        \cup {MemberNameKey(i) : i \in 1..MaxMembers}

\* localStorage.getItem / setItem / removeItem on a store ls.
GetItem(ls, key) == ls[key]
SetItem(ls, key, value) == [ls EXCEPT ![key] = Some(value)]
RemoveItem(ls, key) == [ls EXCEPT ![key] = None]
\* `if (text)` for a stored string: neither null nor empty.
Truthy(opt) == opt # None /\ opt # Some("")

EmptyStorage == [k \in StoreKeys |-> None]

-----------------------------------------------------------------------------
(* Catalog cache *)

\* loadFromCache(): the blobs are parsed in the order rule, stage, weapon inside
\* one try; an absent or empty blob is skipped (its catalog stays []), the
\* first blob that fails to parse ends the parsing.
ParseThrows(ls, n) ==
    \E m \in 1..n : /\ BlobTruthy(GetItem(ls, CACHE_KEYS[TypeOrder[m]]))
                    /\ ~ IsJSON(GetItem(ls, CACHE_KEYS[TypeOrder[m]])[1])
TypeIndex(t) == CHOOSE n \in 1..3 : TypeOrder[n] = t
LoadFromCache(ls) ==
    [t \in Types |->
        IF ParseThrows(ls, TypeIndex(t)) \/ ~ BlobTruthy(GetItem(ls, CACHE_KEYS[t])) THEN <<>>
        ELSE JSONparse(GetItem(ls, CACHE_KEYS[t])[1])]

\* Faulty variant of the cache test: one cached catalog is enough.
CacheComplete_any(cached) == \E t \in Types : Len(cached[t]) > 0

\* loadDataFromCacheOrAPI(): the cache is used iff it holds all three catalogs.
CacheComplete(cached) == \A t \in Types : Len(cached[t]) > 0

\* A fetch outcome: per type <<>> for a failed or non-ok response, <<items>> else.
ValidOutcome(resp) == \A t \in Types : IF resp[t] = None THEN TRUE ELSE resp[t][1] \in API_URLS[t]
FetchOutcomes ==
    {resp \in [Types -> UNION {{None} \cup {Some(c) : c \in API_URLS[t]} : t \in Types}] :
        ValidOutcome(resp)}
FetchSucceeded(resp) == \A t \in Types : resp[t] # None

\* Faulty variant of the exclusion filter: nothing is excluded.
FilterFetched_keepAll(resp) == [t \in Types |-> resp[t][1]]

\* The catalogs fetchAndCacheData() installs from the three answers.
FilterFetched(resp) ==
    [t \in Types |->
        IF t \in DOMAIN EXCLUDED_ITEMS
        THEN Filter(resp[t][1], LAMBDA k : k \notin EXCLUDED_ITEMS[t])
        ELSE resp[t][1]]

\* The three cache writes, in order; the first `written` of them succeed.
RECURSIVE CacheData(_, _, _, _)
CacheData(ls, d, n, written) ==
    IF n > 3 \/ n > written THEN ls
    ELSE CacheData(SetItem(ls, CACHE_KEYS[TypeOrder[n]], JSONstringify(d[TypeOrder[n]])),
                   d, n + 1, written)

\* loadSelectedItems(): the stored selection object, or <<>> for null (nothing
\* stored, or a text that fails to parse).
LoadSelectedItems(ls) ==
    IF ~ BlobTruthy(GetItem(ls, CACHE_KEYS.selectedItems)) THEN None
    ELSE IF ~ IsJSON(GetItem(ls, CACHE_KEYS.selectedItems)[1]) THEN None
    ELSE Some(JSONparse(GetItem(ls, CACHE_KEYS.selectedItems)[1]))

-----------------------------------------------------------------------------
(* Filter (selection) state *)

\* Faulty variant of initializeFilters: the stored selection is not applied.
InitialSelection_ignoreStored(d, ls) == d

\* initializeFilters() throws a TypeError at cachedSelections.<type>.includes
\* when the stored selection object lacks the array of a type whose catalog has
\* an item (filter() calls back once per item).
LacksType(d, ls, n) ==
    /\ LoadSelectedItems(ls) # None
    /\ \E m \in 1..n : /\ Len(d[TypeOrder[m]]) > 0
                       /\ TypeOrder[m] \notin DOMAIN LoadSelectedItems(ls)[1]
InitializeFiltersThrows(d, ls) == LacksType(d, ls, 3)

\* initializeFilters(): the applied selection for catalogs d and store ls.
\* All keys are assigned first; the stored selection then filters the types in
\* the order rule, stage, weapon, up to the first one it lacks.
InitialSelection(d, ls) ==
    [t \in Types |->
        IF LoadSelectedItems(ls) = None \/ LacksType(d, ls, TypeIndex(t)) THEN d[t]
        ELSE IF Len(d[t]) = 0 THEN <<>>
        ELSE Filter(d[t], LAMBDA k : Includes(LoadSelectedItems(ls)[1][t], k))]

\* createFilterList(type, items): one checkbox per item, checked iff selected.
CreateFilterList(items, selected) == [k \in Keys(items) |-> Includes(selected, k)]

\* updateGroupSelectAllCheckbox(type)
GroupSelectAll(items, temp) == Len(items) > 0 /\ Len(temp) = Len(items)

\* Faulty variant of the change handler: the key is pushed without the includes() test.
SetPending_push(temp, key, checked) ==
    IF checked THEN Append(temp, key) ELSE Filter(temp, LAMBDA k : k # key)

\* The checkbox change handler's update of the draft selection.
SetPending(temp, key, checked) ==
    IF checked
    THEN IF Includes(temp, key) THEN temp ELSE Append(temp, key)
    ELSE Filter(temp, LAMBDA k : k # key)

\* checkFilterChanges(): whether the draft differs from the applied selection.
FilterChanged(temp, selected) ==
    \E t \in Types :
        \/ Len(temp[t]) # Len(selected[t])
        \/ ~ \A i \in 1..Len(temp[t]) : Includes(selected[t], temp[t][i])

ButtonDisplay(show) == IF show THEN "block" ELSE "none"

-----------------------------------------------------------------------------
(* Team division *)

Swap(arr, i, j) == [arr EXCEPT ![i] = arr[j], ![j] = arr[i]]

\* Faulty variant of the swap index: j below i only.
RandomChoices_below(n) == {r \in [2..n -> 1..n] : \A i \in 2..n : r[i] < i}

\* The random choices of one shuffle of n elements: j in 1..i for i = n, ..., 2.
RandomChoices(n) == {r \in [2..n -> 1..n] : \A i \in 2..n : r[i] <= i}

RECURSIVE ShuffleFrom(_, _, _)
ShuffleFrom(arr, i, rnd) ==
    IF i < 2 THEN arr ELSE ShuffleFrom(Swap(arr, i, rnd[i]), i - 1, rnd)

\* shuffleArray(array) with the random choices rnd.
ShuffleArray(array, rnd) == ShuffleFrom(array, Len(array), rnd)

\* Faulty variant of the alpha size: Math.floor(n / 2).
CeilHalf_floor(n) == n \div 2

\* Math.ceil(n / 2)
CeilHalf(n) == (n + 1) \div 2

\* displayTeamResults(alphaTeam, bravoTeam): each name is given to the first
\* member index that holds it; bravo is assigned after alpha.
FirstIndex(names, n, name) ==
    CHOOSE i \in UpTo(n) : names[i] = name /\ \A j \in 1..(i - 1) : names[j] # name

DisplayTeamResults(alphaTeam, bravoTeam, n, names) ==
    LET alphaIdx == {FirstIndex(names, n, alphaTeam[j]) : j \in 1..Len(alphaTeam)}
        bravoIdx == {FirstIndex(names, n, bravoTeam[j]) : j \in 1..Len(bravoTeam)}
    IN  [i \in alphaIdx \cup bravoIdx |-> IF i \in bravoIdx THEN "bravo" ELSE "alpha"]

\* divideTeams() over the rendered inputs, with the shuffle's random choices.
DivideTeams(countText, names, rnd) ==
    LET n == ParseInt(countText)
        members == [i \in UpTo(n) |-> names[i]]
        shuffled == ShuffleArray(members, rnd)
        alphaSize == IF n = NaN THEN 0 ELSE CeilHalf(n)
    IN  DisplayTeamResults(SubSeq(shuffled, 1, alphaSize),
                           SubSeq(shuffled, alphaSize + 1, Len(shuffled)), n, names)

\* The lists divideTeams() passes to displayTeamResults(): the members read
\* from the inputs, shuffled, and cut after Math.ceil(memberCount / 2).
Members(countText, names) == [i \in UpTo(ParseInt(countText)) |-> names[i]]
AlphaTeam(countText, names, rnd) ==
    SubSeq(ShuffleArray(Members(countText, names), rnd), 1, CeilHalf(ParseInt(countText)))
BravoTeam(countText, names, rnd) ==
    SubSeq(ShuffleArray(Members(countText, names), rnd), CeilHalf(ParseInt(countText)) + 1,
           Len(Members(countText, names)))

ShuffleChoices(countText) == RandomChoices(Cardinality(UpTo(ParseInt(countText))))

NoTeams == [i \in {} |-> "alpha"]

-----------------------------------------------------------------------------
(* Roster *)

\* initializeMemberNames(): one input per member, from the store or the placeholder.
InitialMemberNames(countText, ls) ==
    [i \in UpTo(ParseInt(countText)) |->
        IF Truthy(GetItem(ls, MemberNameKey(i))) THEN GetItem(ls, MemberNameKey(i))[1]
        ELSE Placeholder(i)]

\* saveCurrentMemberState()
MemberState(countText, names, toggle) ==
    [memberCount |-> ParseInt(countText),
     teamDivisionEnabled |-> toggle,
     memberNames |-> [i \in UpTo(ParseInt(countText)) |-> names[i]]]

-----------------------------------------------------------------------------
(* Page load: the DOMContentLoaded handler *)

\* The value #memberCount has in the markup (the configured default count).
DefaultMemberCount == 1

\* The state the DOMContentLoaded handler leaves for a store ls; rnd are the
\* random choices of the team division it runs when the toggle was stored on.
Boot(ls, rnd) ==
    LET countText == IF Truthy(GetItem(ls, "memberCount"))
                     THEN GetItem(ls, "memberCount")[1]
                     ELSE String(DefaultMemberCount)
        names == InitialMemberNames(countText, ls)
        toggle == GetItem(ls, "teamDivisionToggle") = Some("true")
        cached == LoadFromCache(ls)
        hit == CacheComplete(cached)
        \* on a hit, initializeUI() completes unless initializeFilters() throws
        done == hit /\ ~ InitializeFiltersThrows(cached, ls)
        d == IF hit THEN cached ELSE EmptyByType
        sel == IF hit THEN InitialSelection(d, ls) ELSE EmptyByType
        temp == IF done THEN sel ELSE EmptyByType
    IN  [data |-> d,
         selectedItems |-> sel,
         tempFilterSelections |-> temp,
         currentTeams |-> IF toggle THEN DivideTeams(countText, names, rnd) ELSE NoTeams,
         memberStateSnapshot |-> IF done THEN Some(MemberState(countText, names, toggle))
                                 ELSE None,
         memberCountInput |-> countText,
         memberNameInputs |-> names,
         teamDivisionToggle |-> toggle,
         filterBoxes |-> [t \in Types |-> CreateFilterList(IF done THEN d[t] ELSE <<>>, temp[t])],
         selectAllBox |-> [t \in Types |-> done /\ GroupSelectAll(d[t], temp[t])],
         resultCards |-> IF done THEN UpTo(ParseInt(countText)) ELSE {},
         loadingStatus |-> IF hit /\ ~ done THEN LoadErrorText ELSE "",
         loadState |-> IF done THEN "done" ELSE IF hit THEN "failed" ELSE "fetching"]

BootChoices(ls) ==
    IF GetItem(ls, "teamDivisionToggle") = Some("true")
    THEN ShuffleChoices(IF Truthy(GetItem(ls, "memberCount"))
                        THEN GetItem(ls, "memberCount")[1]
                        ELSE String(DefaultMemberCount))
    ELSE {<<>>}

\* The page is loaded over the store ls.
PageLoad(ls) ==
    \E rnd \in BootChoices(ls) :
        LET b == Boot(ls, rnd)
        IN  /\ data = b.data
            /\ selectedItems = b.selectedItems
            /\ tempFilterSelections = b.tempFilterSelections
            /\ currentResults = <<>>
            /\ currentTeams = b.currentTeams
            /\ memberStateSnapshot = b.memberStateSnapshot
            /\ localStorage = ls
            /\ memberCountInput = b.memberCountInput
            /\ memberNameInputs = b.memberNameInputs
            /\ teamDivisionToggle = b.teamDivisionToggle
            /\ filterBoxes = b.filterBoxes
            /\ selectAllBox = b.selectAllBox
            /\ applyFilterSettingsBtn = ""
            /\ confirmMembersBtn = ""
            /\ resultCards = b.resultCards
            /\ loadingStatus = b.loadingStatus
            /\ loadState = b.loadState
            /\ refreshInFlight = 0
            /\ timers = <<>>
            /\ alerted = {}
            /\ fetchError = None
            /\ writeFailed = FALSE

\* First visit: the store is empty.
Init == PageLoad(EmptyStorage)

\* The page is loaded again: everything but the store starts afresh.
Reload ==
    \E rnd \in BootChoices(localStorage) :
        LET b == Boot(localStorage, rnd)
        IN  /\ data' = b.data
            /\ selectedItems' = b.selectedItems
            /\ tempFilterSelections' = b.tempFilterSelections
            /\ currentResults' = <<>>
            /\ currentTeams' = b.currentTeams
            /\ memberStateSnapshot' = b.memberStateSnapshot
            /\ memberCountInput' = b.memberCountInput
            /\ memberNameInputs' = b.memberNameInputs
            /\ teamDivisionToggle' = b.teamDivisionToggle
            /\ filterBoxes' = b.filterBoxes
            /\ selectAllBox' = b.selectAllBox
            /\ applyFilterSettingsBtn' = ""
            /\ confirmMembersBtn' = ""
            /\ resultCards' = b.resultCards
            /\ loadingStatus' = b.loadingStatus
            /\ loadState' = b.loadState
            /\ refreshInFlight' = 0
            /\ timers' = <<>>
            /\ alerted' = {}
            /\ fetchError' = None
            /\ writeFailed' = FALSE
            /\ UNCHANGED localStorage

-----------------------------------------------------------------------------
(* Catalog load and refresh *)

\* Faulty variant of initializeUI: the draft selection is not reset.
InitializeUI_keepDraft(d, ls) ==
    /\ selectedItems' = InitialSelection(d, ls)
    /\ resultCards' = UpTo(ParseInt(memberCountInput))
    /\ UNCHANGED <<tempFilterSelections, filterBoxes, selectAllBox, applyFilterSettingsBtn>>

\* initializeUI(): initializeFilters() then initializeResults(), for the
\* catalogs d and the store ls the handler sees.
InitializeUI(d, ls) ==
    /\ selectedItems' = InitialSelection(d, ls)
    /\ tempFilterSelections' = InitialSelection(d, ls)
    /\ filterBoxes' = [t \in Types |-> CreateFilterList(d[t], InitialSelection(d, ls)[t])]
    /\ selectAllBox' = [t \in Types |-> GroupSelectAll(d[t], InitialSelection(d, ls)[t])]
    /\ resultCards' = UpTo(ParseInt(memberCountInput))
    /\ UNCHANGED applyFilterSettingsBtn

\* initializeUI() when initializeFilters() throws: the applied selection is
\* assigned as far as the function got, nothing else of it has run.
InitializeUIAborted(d, ls) ==
    /\ selectedItems' = InitialSelection(d, ls)
    /\ UNCHANGED <<tempFilterSelections, filterBoxes, selectAllBox, applyFilterSettingsBtn,
                   resultCards>>

\* How a request fails: fetch() rejects (no response), or the response is not ok.
Failures == {"network", "404"}
\* The error fetchFromAPI(url) ends with for such a failure.
FetchFromAPIError(url, failure) ==
    IF failure = "network" THEN "TypeError: Failed to fetch"
    ELSE "API error: " \o failure
QuotaError == "QuotaExceededError"
\* The errors fetchAndCacheData() can rethrow for the answers resp: that of a
\* failed request when there is one (Promise.all rejects with the first
\* rejection), else that of the first cache write that throws.
FetchErrors(resp, written) ==
    IF ~ FetchSucceeded(resp)
    THEN {Some(FetchFromAPIError(t, f)) : t \in {u \in Types : resp[u] = None}, f \in Failures}
    ELSE IF written < 3 THEN {Some(QuotaError)} ELSE {None}

\* fetchAndCacheData() once its three requests are settled with resp; of the
\* three cache writes the first `written` succeed.  TRUE iff it returns
\* normally, FALSE iff it throws.
FetchAndCacheData(resp, written) ==
    /\ FetchSucceeded(resp)
    /\ written = 3

\* Faulty variant of the data assignment: the answers that arrived are
\* installed although another request failed.
FetchedData_partial(resp) ==
    [t \in Types |->
        IF resp[t] = None THEN data[t]
        ELSE IF t \in DOMAIN EXCLUDED_ITEMS
             THEN Filter(resp[t][1], LAMBDA k : k \notin EXCLUDED_ITEMS[t])
             ELSE resp[t][1]]

FetchedData(resp) == IF FetchSucceeded(resp) THEN FilterFetched(resp) ELSE data
\* Faulty variant of the cache writes: a catalog already cached is kept.
FetchedStorage_keepCached(resp, written) ==
    IF FetchSucceeded(resp) /\ GetItem(localStorage, CACHE_KEYS.rule) = None
    THEN CacheData(localStorage, FilterFetched(resp), 1, written)
    ELSE localStorage

FetchedStorage(resp, written) ==
    IF FetchSucceeded(resp) THEN CacheData(localStorage, FilterFetched(resp), 1, written)
    ELSE localStorage

\* loadDataFromCacheOrAPI() resumes after `await fetchAndCacheData()`.
LoadFetched(resp, written) ==
    /\ loadState = "fetching"
    /\ data' = FetchedData(resp)
    /\ localStorage' = FetchedStorage(resp, written)
    /\ writeFailed' = (writeFailed \/ (FetchSucceeded(resp) /\ written < 3))
    /\ IF FetchAndCacheData(resp, written) /\ ~ InitializeFiltersThrows(data', localStorage')
       THEN /\ InitializeUI(data', localStorage')
            /\ memberStateSnapshot' =
                   Some(MemberState(memberCountInput, memberNameInputs, teamDivisionToggle))
            /\ loadState' = "done"
            /\ UNCHANGED loadingStatus
       ELSE /\ loadingStatus' = LoadErrorText
            /\ loadState' = "failed"
            /\ IF FetchAndCacheData(resp, written)
               THEN InitializeUIAborted(data', localStorage')
               ELSE UNCHANGED <<filterVars, resultCards>>
            /\ UNCHANGED memberStateSnapshot
    /\ alerted' = {}
    /\ fetchError' \in FetchErrors(resp, written)
    /\ UNCHANGED <<currentResults, currentTeams, memberCountInput, memberNameInputs,
                   teamDivisionToggle, confirmMembersBtn, refreshInFlight, timers>>

\* refreshData() up to its await: the four blobs are removed, the fetch is issued.
\* Faulty variant of refreshData: the stored selection is not removed.
RefreshData_keepSelection ==
    /\ refreshInFlight < MaxInFlight
    /\ localStorage' =
           RemoveItem(RemoveItem(RemoveItem(localStorage, CACHE_KEYS.rule),
               CACHE_KEYS.stage), CACHE_KEYS.weapon)
    /\ refreshInFlight' = refreshInFlight + 1
    /\ alerted' = {}
    /\ fetchError' = None
    /\ UNCHANGED <<data, filterVars, rosterVars, currentResults, currentTeams, resultCards,
                   loadingStatus, loadState, timers, writeFailed>>

\* limit: the number of refreshData() calls the model lets be outstanding.
RefreshDataUpTo(limit) ==
    /\ refreshInFlight < limit
    /\ localStorage' =
           RemoveItem(RemoveItem(RemoveItem(RemoveItem(localStorage, CACHE_KEYS.rule),
               CACHE_KEYS.stage), CACHE_KEYS.weapon), CACHE_KEYS.selectedItems)
    /\ refreshInFlight' = refreshInFlight + 1
    /\ alerted' = {}
    /\ fetchError' = None
    /\ UNCHANGED <<data, filterVars, rosterVars, currentResults, currentTeams, resultCards,
                   loadingStatus, loadState, timers, writeFailed>>

RefreshData == RefreshDataUpTo(MaxInFlight)

\* Faulty variant of the resumption of refreshData(): after a failed fetch the
\* requests are issued again.
RefreshFetched_retry(resp, written) ==
    /\ refreshInFlight > 0
    /\ refreshInFlight' = IF FetchSucceeded(resp) THEN refreshInFlight - 1 ELSE refreshInFlight
    /\ data' = FetchedData(resp)
    /\ localStorage' = FetchedStorage(resp, written)
    /\ writeFailed' = (writeFailed \/ (FetchSucceeded(resp) /\ written < 3))
    /\ IF FetchAndCacheData(resp, written) /\ ~ InitializeFiltersThrows(data', localStorage')
       THEN /\ InitializeUI(data', localStorage')
            /\ UNCHANGED loadingStatus
       ELSE /\ loadingStatus' = RefreshErrorText
            /\ IF FetchAndCacheData(resp, written)
               THEN InitializeUIAborted(data', localStorage')
               ELSE UNCHANGED <<filterVars, resultCards>>
    /\ alerted' = {}
    /\ fetchError' \in FetchErrors(resp, written)
    /\ UNCHANGED <<rosterVars, currentResults, currentTeams, loadState, timers>>

\* refreshData() resumes after `await fetchAndCacheData()`.
RefreshFetched(resp, written) ==
    /\ refreshInFlight > 0
    /\ refreshInFlight' = refreshInFlight - 1
    /\ data' = FetchedData(resp)
    /\ localStorage' = FetchedStorage(resp, written)
    /\ writeFailed' = (writeFailed \/ (FetchSucceeded(resp) /\ written < 3))
    /\ IF FetchAndCacheData(resp, written) /\ ~ InitializeFiltersThrows(data', localStorage')
       THEN /\ InitializeUI(data', localStorage')
            /\ UNCHANGED loadingStatus
       ELSE /\ loadingStatus' = RefreshErrorText
            /\ IF FetchAndCacheData(resp, written)
               THEN InitializeUIAborted(data', localStorage')
               ELSE UNCHANGED <<filterVars, resultCards>>
    /\ alerted' = {}
    /\ fetchError' \in FetchErrors(resp, written)
    /\ UNCHANGED <<rosterVars, currentResults, currentTeams, loadState, timers>>

-----------------------------------------------------------------------------
(* Filter intents *)

\* The user flips the checkbox of item key: its change handler.
ToggleFilterItem(type, key) ==
    /\ key \in DOMAIN filterBoxes[type]
    /\ LET checked == ~ filterBoxes[type][key]
       IN  /\ filterBoxes' = [filterBoxes EXCEPT ![type][key] = checked]
           /\ tempFilterSelections' =
                  [tempFilterSelections EXCEPT
                      ![type] = SetPending(tempFilterSelections[type], key, checked)]
    /\ selectAllBox' =
           [selectAllBox EXCEPT ![type] = GroupSelectAll(data[type], tempFilterSelections'[type])]
    /\ applyFilterSettingsBtn' =
           ButtonDisplay(FilterChanged(tempFilterSelections', selectedItems))
    /\ alerted' = {}
    /\ fetchError' = None
    /\ UNCHANGED <<data, selectedItems, rosterVars, currentResults, currentTeams,
                   localStorage, resultCards, loadingStatus, loadState, refreshInFlight,
                   timers, writeFailed>>

\* Faulty variant of the select-all handlers: unchecking leaves the draft as it is.
HandleSelectAll_keepOnUncheck(type) ==
    /\ loadState = "done"
    /\ LET checked == ~ selectAllBox[type]
       IN  /\ selectAllBox' = [selectAllBox EXCEPT ![type] = checked]
           /\ tempFilterSelections' =
                  [tempFilterSelections EXCEPT
                      ![type] = IF checked THEN data[type] ELSE tempFilterSelections[type]]
    /\ filterBoxes' =
           [filterBoxes EXCEPT ![type] =
               [k \in DOMAIN filterBoxes[type] |->
                   IF k \in Keys(data[type]) THEN Includes(tempFilterSelections'[type], k)
                   ELSE filterBoxes[type][k]]]
    /\ applyFilterSettingsBtn' =
           ButtonDisplay(FilterChanged(tempFilterSelections', selectedItems))
    /\ alerted' = {}
    /\ fetchError' = None
    /\ UNCHANGED <<data, selectedItems, rosterVars, currentResults, currentTeams,
                   localStorage, resultCards, loadingStatus, loadState, refreshInFlight,
                   timers, writeFailed>>

\* handleSelectAllRules / Stages / Weapons: the user flips #selectAll-<type>.
\* The handlers are attached by initializeButtonVisibility().
HandleSelectAll(type) ==
    /\ loadState = "done"
    /\ LET checked == ~ selectAllBox[type]
       IN  /\ selectAllBox' = [selectAllBox EXCEPT ![type] = checked]
           /\ tempFilterSelections' =
                  [tempFilterSelections EXCEPT ![type] = IF checked THEN data[type] ELSE <<>>]
    /\ filterBoxes' =
           [filterBoxes EXCEPT ![type] =
               [k \in DOMAIN filterBoxes[type] |->
                   IF k \in Keys(data[type]) THEN Includes(tempFilterSelections'[type], k)
                   ELSE filterBoxes[type][k]]]
    /\ applyFilterSettingsBtn' =
           ButtonDisplay(FilterChanged(tempFilterSelections', selectedItems))
    /\ alerted' = {}
    /\ fetchError' = None
    /\ UNCHANGED <<data, selectedItems, rosterVars, currentResults, currentTeams,
                   localStorage, resultCards, loadingStatus, loadState, refreshInFlight,
                   timers, writeFailed>>

\* Faulty variant of saveSelectedItems: nothing is written.
SaveSelectedItems_skip(ls, selected, ok) == ls

\* saveSelectedItems(): the write is tried; a throw is caught and logged.
SaveSelectedItems(ls, selected, ok) ==
    IF ok THEN SetItem(ls, CACHE_KEYS.selectedItems, JSONstringify(selected)) ELSE ls

\* Faulty variant of applyFilterSettings: the weapon selection is not copied.
ApplyFilterSettings_noWeapon(ok) ==
    /\ selectedItems' = [tempFilterSelections EXCEPT !["weapon"] = selectedItems["weapon"]]
    /\ localStorage' = SaveSelectedItems(localStorage, selectedItems', ok)
    /\ writeFailed' = (writeFailed \/ ~ ok)
    /\ applyFilterSettingsBtn' = "none"
    /\ resultCards' = UpTo(ParseInt(memberCountInput))
    /\ alerted' = {}
    /\ fetchError' = None
    /\ UNCHANGED <<data, tempFilterSelections, filterBoxes, selectAllBox, rosterVars,
                   currentResults, currentTeams, loadingStatus, loadState, refreshInFlight,
                   timers>>

\* applyFilterSettings(); ok: the store write succeeds.
ApplyFilterSettings(ok) ==
    /\ selectedItems' = tempFilterSelections
    /\ localStorage' = SaveSelectedItems(localStorage, selectedItems', ok)
    /\ writeFailed' = (writeFailed \/ ~ ok)
    /\ applyFilterSettingsBtn' = "none"
    /\ resultCards' = UpTo(ParseInt(memberCountInput))
    /\ alerted' = {}
    /\ fetchError' = None
    /\ UNCHANGED <<data, tempFilterSelections, filterBoxes, selectAllBox, rosterVars,
                   currentResults, currentTeams, loadingStatus, loadState, refreshInFlight,
                   timers>>

-----------------------------------------------------------------------------
(* Draws *)

\* Faulty variants of getAvailableItems: the pool taken from the draft selection, and
\* the pool without the empty-means-all fallback.
GetAvailableItems_draft(type) ==
    IF Len(tempFilterSelections[type]) = 0 THEN data[type]
    ELSE Filter(data[type], LAMBDA k : Includes(tempFilterSelections[type], k))

GetAvailableItems_noFallback(type) ==
    Filter(data[type], LAMBDA k : Includes(selectedItems[type], k))

\* getAvailableItems(type)
GetAvailableItems(type) ==
    IF Len(selectedItems[type]) = 0 THEN data[type]
    ELSE Filter(data[type], LAMBDA k : Includes(selectedItems[type], k))

\* The random indices one runRoulette(type) call draws: one per member slot.
PickChoices(type) ==
    IF Len(GetAvailableItems(type)) = 0 THEN {<<>>}
    ELSE [1..MaxMembers -> 1..Len(GetAvailableItems(type))]

\* null, written as a text that is no item key.
Null == "null"

\* Faulty variant of selectRandomItem: the first item whatever the index.
SelectRandomItem_first(items, index) == IF Len(items) = 0 THEN Null ELSE items[1]

\* selectRandomItem(items) with the random index already drawn.
SelectRandomItem(items, index) == IF Len(items) = 0 THEN Null ELSE items[index]

WeaponSlot(i) == String(i) \o "-weapon"
CommonSlot(type) == "common-" \o type

RECURSIVE WeaponWrites(_, _, _, _)
WeaponWrites(i, n, cards, pick) ==
    IF n = NaN \/ i > n THEN <<>>
    ELSE (IF i \in cards
          THEN <<[slot |-> WeaponSlot(i),
                  item |-> SelectRandomItem(GetAvailableItems("weapon"), pick[i])]>>
          ELSE <<>>) \o WeaponWrites(i + 1, n, cards, pick)

\* The setTimeout callbacks one runRoulette(type) call registers, in order;
\* cards are the result cards rendered when it runs.
RouletteWrites(type, cards, pick) ==
    IF Len(GetAvailableItems(type)) = 0 THEN <<>>
    ELSE IF type \in {"rule", "stage"}
         THEN <<[slot |-> CommonSlot(type),
                 item |-> SelectRandomItem(GetAvailableItems(type), pick[1])]>>
         ELSE WeaponWrites(1, ParseInt(memberCountInput), cards, pick)

\* The callbacks a draw call registers join the timer queue (all with the same
\* delay, so they run in the order registered).
SetTimeouts(queue, writes) == IF writes = <<>> THEN queue ELSE Append(queue, writes)

\* The alert runRoulette(type) raises when nothing is available.
RouletteAlerts(type) == IF Len(GetAvailableItems(type)) = 0 THEN {type} ELSE {}

\* runRuleRoulette / runStageRoulette / runWeaponRoulette
RunRoulette(type, pick) ==
    /\ Len(timers) < MaxPendingDraws
    /\ timers' = SetTimeouts(timers, RouletteWrites(type, resultCards, pick))
    /\ alerted' = RouletteAlerts(type)
    /\ fetchError' = None
    /\ UNCHANGED <<data, filterVars, rosterVars, currentResults, currentTeams, localStorage,
                   resultCards, loadingStatus, loadState, refreshInFlight, writeFailed>>

\* runAllRoulette(); rnd: the random choices of the team division it may run.
RunAllRoulette(pickRule, pickStage, pickWeapon, rnd) ==
    /\ resultCards' = UpTo(ParseInt(memberCountInput))
    /\ currentTeams' = IF teamDivisionToggle
                       THEN DivideTeams(memberCountInput, memberNameInputs, rnd)
                       ELSE currentTeams
    /\ Len(timers) < MaxPendingDraws
    /\ timers' = SetTimeouts(timers, RouletteWrites("rule", resultCards', pickRule)
                                        \o RouletteWrites("stage", resultCards', pickStage)
                                        \o RouletteWrites("weapon", resultCards', pickWeapon))
    /\ alerted' = RouletteAlerts("rule") \cup RouletteAlerts("stage") \cup RouletteAlerts("weapon")
    /\ fetchError' = None
    /\ UNCHANGED <<data, filterVars, rosterVars, currentResults, localStorage,
                   loadingStatus, loadState, refreshInFlight, writeFailed>>

\* The oldest pending setTimeout callback runs: the result is recorded.
TimerFires ==
    /\ Len(timers) > 0
    /\ currentResults' =
           [s \in DOMAIN currentResults \cup {Head(timers)[1].slot} |->
               IF s = Head(timers)[1].slot THEN Head(timers)[1].item ELSE currentResults[s]]
    /\ timers' = IF Len(Head(timers)) = 1 THEN Tail(timers)
                 ELSE <<Tail(Head(timers))>> \o Tail(timers)
    /\ alerted' = {}
    /\ fetchError' = None
    /\ UNCHANGED <<data, filterVars, rosterVars, currentTeams, localStorage, resultCards,
                   loadingStatus, loadState, refreshInFlight, writeFailed>>

-----------------------------------------------------------------------------
(* Roster intents *)

\* checkMemberChanges(): the display it gives the Confirm button.
MemberChanged(countText, names, toggle, snapshot) ==
    IF snapshot = None THEN TRUE
    ELSE IF ParseInt(countText) = NaN \/ ParseInt(countText) # snapshot[1].memberCount THEN TRUE
    ELSE IF toggle # snapshot[1].teamDivisionEnabled THEN TRUE
    ELSE \E i \in UpTo(ParseInt(countText)) :
            IF i \in DOMAIN names
            THEN names[i] # (IF i \in DOMAIN snapshot[1].memberNames
                             THEN snapshot[1].memberNames[i] ELSE "")
            ELSE FALSE

\* The texts the user types into a name input of member i.
NameTexts(i) == {"X", Placeholder(i)}

\* The user changes #memberCount: initializeMemberNames(), checkMemberChanges().
SetMemberCount(n) ==
    /\ String(n) # memberCountInput
    /\ memberCountInput' = String(n)
    /\ memberNameInputs' = InitialMemberNames(String(n), localStorage)
    /\ confirmMembersBtn' =
           ButtonDisplay(MemberChanged(memberCountInput', memberNameInputs',
                                       teamDivisionToggle, memberStateSnapshot))
    /\ alerted' = {}
    /\ fetchError' = None
    /\ UNCHANGED <<data, filterVars, memberStateSnapshot, teamDivisionToggle,
                   currentResults, currentTeams, localStorage, resultCards, loadingStatus,
                   loadState, refreshInFlight, timers, writeFailed>>

\* The user empties #memberCount: the same change handler, with parseInt('') = NaN.
ClearMemberCount ==
    /\ memberCountInput # ""
    /\ memberCountInput' = ""
    /\ memberNameInputs' = InitialMemberNames("", localStorage)
    /\ confirmMembersBtn' =
           ButtonDisplay(MemberChanged(memberCountInput', memberNameInputs',
                                       teamDivisionToggle, memberStateSnapshot))
    /\ alerted' = {}
    /\ fetchError' = None
    /\ UNCHANGED <<data, filterVars, memberStateSnapshot, teamDivisionToggle,
                   currentResults, currentTeams, localStorage, resultCards, loadingStatus,
                   loadState, refreshInFlight, timers, writeFailed>>

\* The user edits #memberName<i>: checkMemberChanges().
SetMemberName(i, name) ==
    /\ i \in DOMAIN memberNameInputs
    /\ name # memberNameInputs[i]
    /\ memberNameInputs' = [memberNameInputs EXCEPT ![i] = name]
    /\ confirmMembersBtn' =
           ButtonDisplay(MemberChanged(memberCountInput, memberNameInputs',
                                       teamDivisionToggle, memberStateSnapshot))
    /\ alerted' = {}
    /\ fetchError' = None
    /\ UNCHANGED <<data, filterVars, memberStateSnapshot, memberCountInput,
                   teamDivisionToggle, currentResults, currentTeams, localStorage,
                   resultCards, loadingStatus, loadState, refreshInFlight, timers,
                   writeFailed>>

\* The user flips #teamDivisionToggle: checkMemberChanges().
ToggleTeamDivision ==
    /\ teamDivisionToggle' = ~ teamDivisionToggle
    /\ confirmMembersBtn' =
           ButtonDisplay(MemberChanged(memberCountInput, memberNameInputs,
                                       teamDivisionToggle', memberStateSnapshot))
    /\ alerted' = {}
    /\ fetchError' = None
    /\ UNCHANGED <<data, filterVars, memberStateSnapshot, memberCountInput,
                   memberNameInputs, currentResults, currentTeams, localStorage,
                   resultCards, loadingStatus, loadState, refreshInFlight, timers,
                   writeFailed>>

\* The store writes of confirmMembers(), in order: the count, the names, the toggle.
RECURSIVE SaveMemberNames(_, _, _)
SaveMemberNames(ls, i, n) ==
    IF n = NaN \/ i > n THEN ls
    ELSE SaveMemberNames(
             IF i \in DOMAIN memberNameInputs
             THEN SetItem(ls, MemberNameKey(i), memberNameInputs[i]) ELSE ls,
             i + 1, n)

SaveMembers(ls) ==
    SetItem(SaveMemberNames(SetItem(ls, "memberCount", String(ParseInt(memberCountInput))),
                            1, ParseInt(memberCountInput)),
            "teamDivisionToggle", IF teamDivisionToggle THEN "true" ELSE "false")

\* confirmMembers(); rnd: the random choices of the team division it may run.
ConfirmMembers(rnd) ==
    /\ localStorage' = SaveMembers(localStorage)
    /\ currentTeams' = IF teamDivisionToggle
                       THEN DivideTeams(memberCountInput, memberNameInputs, rnd)
                       ELSE NoTeams
    /\ memberStateSnapshot' =
           Some(MemberState(memberCountInput, memberNameInputs, teamDivisionToggle))
    /\ confirmMembersBtn' = "none"
    /\ resultCards' = UpTo(ParseInt(memberCountInput))
    /\ alerted' = {}
    /\ fetchError' = None
    /\ UNCHANGED <<data, filterVars, memberCountInput, memberNameInputs,
                   teamDivisionToggle, currentResults, loadingStatus, loadState,
                   refreshInFlight, timers, writeFailed>>

\* The same writes as a list of <<key, value>>, and the store after the first
\* k of them.
MemberWrites ==
    <<<<"memberCount", String(ParseInt(memberCountInput))>>>>
    \o [i \in UpTo(ParseInt(memberCountInput)) |-> <<MemberNameKey(i), memberNameInputs[i]>>]
    \o <<<<"teamDivisionToggle", IF teamDivisionToggle THEN "true" ELSE "false">>>>

RECURSIVE WriteItems(_, _, _)
WriteItems(ls, writes, k) ==
    IF k = 0 THEN ls
    ELSE SetItem(WriteItems(ls, writes, k - 1), writes[k][1], writes[k][2])

\* confirmMembers() when the setItem after `written` successful ones throws:
\* none of its calls is inside a try, so the handler ends there.
ConfirmMembersThrows(written) ==
    /\ written < Len(MemberWrites)
    /\ localStorage' = WriteItems(localStorage, MemberWrites, written)
    /\ writeFailed' = TRUE
    /\ alerted' = {}
    /\ fetchError' = None
    /\ UNCHANGED <<data, filterVars, rosterVars, currentResults, currentTeams, resultCards,
                   loadingStatus, loadState, refreshInFlight, timers>>

-----------------------------------------------------------------------------
(* Specifications *)

\* The selection state machine with the catalog cache; store writes succeed.
NextFilter ==
    \/ \E resp \in FetchOutcomes : LoadFetched(resp, 3)
    \/ RefreshData
    \/ \E resp \in FetchOutcomes : RefreshFetched(resp, 3)
    \/ \E type \in Types, key \in {"r1", "s1", "w1", "w2"} : ToggleFilterItem(type, key)
    \/ \E type \in Types : HandleSelectAll(type)
    \/ ApplyFilterSettings(TRUE)
    \/ Reload

SpecFilter == Init /\ [][NextFilter]_vars

\* The same within one page session, with a store write that throws (quota
\* exceeded, storage denied) in at most one of its operations.
WritesDone(n) == IF writeFailed THEN {n} ELSE 0..n

NextStore ==
    \/ \E resp \in FetchOutcomes : \E written \in WritesDone(3) : LoadFetched(resp, written)
    \/ RefreshData
    \/ \E resp \in FetchOutcomes : \E written \in WritesDone(3) : RefreshFetched(resp, written)
    \/ \E key \in {"w1", "w2"} : ToggleFilterItem("weapon", key)
    \/ HandleSelectAll("weapon")
    \/ \E written \in WritesDone(1) : ApplyFilterSettings(written = 1)

SpecStore == Init /\ [][NextStore]_vars

\* The catalog cache alone, over remote catalogs that list excluded keys at
\* any position, several other items, and an excluded key of another type.
CatalogAnswers ==
    [rule   |-> {<<"r1", "tricolor", "r2">>, <<"tricolor", "r2", "r1">>, <<"tricolor">>},
     stage  |-> {<<"grand_arena", "s1">>, <<"s2", "s1", "grand_arena">>},
     weapon |-> {<<"w1", "w2">>, <<"w2", "tricolor", "w1">>}]
CatalogOutcomes ==
    {resp \in [Types -> UNION {{None} \cup {Some(c) : c \in CatalogAnswers[t]} : t \in Types}] :
        \A t \in Types : IF resp[t] = None THEN TRUE ELSE resp[t][1] \in CatalogAnswers[t]}

NextCatalog ==
    \/ \E resp \in CatalogOutcomes : LoadFetched(resp, 3)
    \/ RefreshData
    \/ \E resp \in CatalogOutcomes : RefreshFetched(resp, 3)
    \/ Reload

SpecCatalog == Init /\ [][NextCatalog]_vars

\* The page load over a store left by an earlier session or written by
\* something else: each catalog blob is absent, empty, unparsable, an empty
\* array or a catalog; the selection blob is absent, unparsable, lacks the
\* weapon array, or is complete.
CacheContents(catalog) ==
    {None, Some(EmptyText), Some(Unparsable), Some(JSONstringify(<<>>)),
     Some(JSONstringify(catalog))}
SelectionContents ==
    {None, Some(Unparsable),
     Some(JSONstringify([rule |-> <<"r1">>, stage |-> <<"s1">>])),
     Some(JSONstringify([rule |-> <<"r1">>, stage |-> <<"s1">>, weapon |-> <<"w1">>]))}
BootStore(r, s, w, sel) ==
    [k \in StoreKeys |->
        IF k = CACHE_KEYS.rule THEN r
        ELSE IF k = CACHE_KEYS.stage THEN s
        ELSE IF k = CACHE_KEYS.weapon THEN w
        ELSE IF k = CACHE_KEYS.selectedItems THEN sel
        ELSE None]
InitBoot ==
    \E r \in CacheContents(<<"r1">>), s \in CacheContents(<<"s1", "s2">>),
       w \in CacheContents(<<"w1", "w2">>), sel \in SelectionContents :
        PageLoad(BootStore(r, s, w, sel))

NextBoot ==
    \/ \E resp \in FetchOutcomes : LoadFetched(resp, 3)
    \/ \E type \in Types, key \in {"r1", "s1", "s2", "w1", "w2"} : ToggleFilterItem(type, key)
    \/ ApplyFilterSettings(TRUE)
    \/ Reload

SpecBoot == InitBoot /\ [][NextBoot]_vars

\* The page load when the store is absent or denies reading: getItem throws at
\* the first read of the DOMContentLoaded handler, outside any try, and the
\* handler ends there.  No name input is rendered, no listener is attached and
\* loadDataFromCacheOrAPI() is not called.
PageLoadDenied ==
    /\ data = EmptyByType
    /\ selectedItems = EmptyByType
    /\ tempFilterSelections = EmptyByType
    /\ currentResults = <<>>
    /\ currentTeams = NoTeams
    /\ memberStateSnapshot = None
    /\ localStorage = EmptyStorage
    /\ memberCountInput = String(DefaultMemberCount)
    /\ memberNameInputs = <<>>
    /\ teamDivisionToggle = FALSE
    /\ filterBoxes = [t \in Types |-> CreateFilterList(<<>>, <<>>)]
    /\ selectAllBox = [t \in Types |-> FALSE]
    /\ applyFilterSettingsBtn = ""
    /\ confirmMembersBtn = ""
    /\ resultCards = {}
    /\ loadingStatus = ""
    /\ loadState = "uncaught"
    /\ refreshInFlight = 0
    /\ timers = <<>>
    /\ alerted = {}
    /\ fetchError = None
    /\ writeFailed = FALSE

\* The page load over a store that can be read or not; the session is followed
\* where the handler completed.
InitStartup == InitBoot \/ PageLoadDenied
NextStartup == loadState # "uncaught" /\ NextBoot
SpecStartup == InitStartup /\ [][NextStartup]_vars

\* The draws over the applied and the draft filter.
NextDraw ==
    \/ \E resp \in FetchOutcomes : LoadFetched(resp, 3)
    \/ \E type \in Types, key \in {"r1", "s1", "w1", "w2"} : ToggleFilterItem(type, key)
    \/ \E type \in Types : HandleSelectAll(type)
    \/ ApplyFilterSettings(TRUE)
    \/ \E type \in Types : \E pick \in PickChoices(type) : RunRoulette(type, pick)
    \/ \E pr \in PickChoices("rule"), ps \in PickChoices("stage"), pw \in PickChoices("weapon") :
           \E rnd \in ShuffleChoices(memberCountInput) : RunAllRoulette(pr, ps, pw, rnd)
    \/ TimerFires

SpecDraw == Init /\ [][NextDraw]_vars

\* The roster state machine with the draws.
RosterFetchOutcomes ==
    {resp \in FetchOutcomes :
        /\ resp["rule"] = Some(<<"r1", "tricolor">>)
        /\ resp["stage"] # None
        /\ resp["weapon"] \in {None, Some(<<"w1">>)}}

NextRoster ==
    \/ \E resp \in RosterFetchOutcomes : LoadFetched(resp, 3)
    \/ \E n \in 1..MaxMembers : SetMemberCount(n)
    \/ \E name \in NameTexts(1) : SetMemberName(1, name)
    \/ ToggleTeamDivision
    \/ \E rnd \in ShuffleChoices(memberCountInput) : ConfirmMembers(rnd)
    \/ \E pick \in PickChoices("weapon") : RunRoulette("weapon", pick)
    \/ \E pr \in PickChoices("rule"), ps \in PickChoices("stage"), pw \in PickChoices("weapon") :
           \E rnd \in ShuffleChoices(memberCountInput) : RunAllRoulette(pr, ps, pw, rnd)
    \/ TimerFires

SpecRoster == Init /\ [][NextRoster]_vars

\* The roster editing alone, with a count input that can be emptied.
NextMembers ==
    \/ \E resp \in RosterFetchOutcomes : LoadFetched(resp, 3)
    \/ \E n \in 1..MaxMembers : SetMemberCount(n)
    \/ ClearMemberCount
    \/ \E i \in 1..MaxMembers : \E name \in NameTexts(i) : SetMemberName(i, name)
    \/ ToggleTeamDivision
    \/ \E rnd \in ShuffleChoices(memberCountInput) : ConfirmMembers(rnd)

SpecMembers == Init /\ [][NextMembers]_vars

\* The load and the refreshes of one page session, every request answered in
\* the end: the two resumptions after `await` are weakly fair.
NextRefresh ==
    \/ \E resp \in FetchOutcomes : LoadFetched(resp, 3)
    \/ RefreshData
    \/ \E resp \in FetchOutcomes : RefreshFetched(resp, 3)
    \/ \E key \in {"w1", "w2"} : ToggleFilterItem("weapon", key)
    \/ ApplyFilterSettings(TRUE)

SpecRefresh ==
    /\ Init /\ [][NextRefresh]_vars
    /\ WF_vars(\E resp \in FetchOutcomes : LoadFetched(resp, 3))
    /\ WF_vars(\E resp \in FetchOutcomes : RefreshFetched(resp, 3))

\* Refreshes that overlap, after the load: a refresh-catalog may be invoked
\* while another is outstanding, and the answers arrive in any order.
OverlapOutcomes ==
    {resp \in FetchOutcomes : resp["rule"] \in {None, Some(<<"r1", "tricolor">>)}}

NextOverlap ==
    \/ \E resp \in OverlapOutcomes : LoadFetched(resp, 3)
    \/ loadState = "done" /\ RefreshDataUpTo(MaxOverlap)
    \/ \E resp \in OverlapOutcomes : RefreshFetched(resp, 3)
    \/ \E key \in {"w1", "w2"} : ToggleFilterItem("weapon", key)
    \/ ApplyFilterSettings(TRUE)

SpecOverlap == Init /\ [][NextOverlap]_vars

\* The two commits with a store whose writes can throw, once per session.
NextCommit ==
    \/ \E resp \in RosterFetchOutcomes : LoadFetched(resp, 3)
    \/ \E key \in {"w1", "w2"} : ToggleFilterItem("weapon", key)
    \/ \E ok \in BOOLEAN : (ok \/ ~ writeFailed) /\ ApplyFilterSettings(ok)
    \/ \E n \in 1..MaxMembers : SetMemberCount(n)
    \/ \E name \in NameTexts(1) : SetMemberName(1, name)
    \/ ToggleTeamDivision
    \/ \E rnd \in ShuffleChoices(memberCountInput) : ConfirmMembers(rnd)
    \/ \E written \in 0..(MaxMembers + 1) : ~ writeFailed /\ ConfirmMembersThrows(written)

SpecCommit == Init /\ [][NextCommit]_vars

-----------------------------------------------------------------------------
(* Properties *)

SelectionKey == CACHE_KEYS.selectedItems
StoredSelection == LoadSelectedItems(localStorage)
Idle == loadState # "fetching" /\ refreshInFlight = 0
NoDuplicates(s) == \A i, j \in 1..Len(s) : s[i] = s[j] => i = j
\* pending and committed differ as sets, for some type
Dirty == \E t \in Types : Keys(tempFilterSelections[t]) # Keys(selectedItems[t])

\* The type a result slot belongs to.
SlotType(slot) ==
    IF slot = CommonSlot("rule") THEN "rule"
    ELSE IF slot = CommonSlot("stage") THEN "stage" ELSE "weapon"

\* A draw call has registered writes in this step; they are the last entry.
DrawRegistered == Len(timers') = Len(timers) + 1
NewWrites == timers'[Len(timers')]

\* Steps that run initializeFilters(): a load or refresh that succeeded, or a
\* page load served from the cache.
Fetched == {resp \in FetchOutcomes : FetchSucceeded(resp)}
ReinitByLoad ==
    /\ loadState = "fetching" /\ loadState' = "done"
    /\ \E resp \in Fetched : LoadFetched(resp, 3)
ReinitByRefresh ==
    /\ refreshInFlight' = refreshInFlight - 1 /\ loadingStatus' = loadingStatus
    /\ localStorage'[CACHE_KEYS.weapon] # None
    /\ \E resp \in Fetched : RefreshFetched(resp, 3)
ReinitByReload == loadState' = "done" /\ refreshInFlight' = 0 /\ timers' = <<>> /\ Reload
ReinitStep == ReinitByLoad \/ ReinitByRefresh \/ ReinitByReload

ApplyStep == \E ok \in BOOLEAN : ApplyFilterSettings(ok)
ToggleStep(t, k) == ToggleFilterItem(t, k)
EditStep ==
    \/ \E t \in Types : \E k \in DOMAIN filterBoxes[t] : ToggleFilterItem(t, k)
    \/ \E t \in Types : HandleSelectAll(t)

\* C1: every write a draw registers carries an item of the catalog whose key
\* is in the applied selection of its type (any catalog item when the applied
\* selection is empty), whatever the draft selection holds.
C1_DrawsUseAppliedFilter ==
    [][DrawRegistered =>
          \A i \in 1..Len(NewWrites) :
              LET t == SlotType(NewWrites[i].slot)
              IN  /\ NewWrites[i].item \in Keys(data[t])
                  /\ Len(selectedItems[t]) > 0 => Includes(selectedItems[t], NewWrites[i].item)]_vars

\* A draw-all has just run (it raised the alert for the empty rule catalog):
\* the draft weapon selection is {w2}, the applied one {w1}, and w1 was drawn.
C1_Witness ==
    /\ alerted = {"rule"}
    /\ selectedItems["weapon"] = <<"w1">>
    /\ tempFilterSelections["weapon"] = <<"w2">>
    /\ Len(timers) = 1
    /\ \E i \in 1..Len(timers[1]) :
           timers[1][i] = [slot |-> WeaponSlot(1), item |-> "w1"]

\* C2 (as claimed): once the roster has a committed snapshot, a step other
\* than confirm-roster leaves the committed roster and the roster store keys
\* unchanged, changes the team assignment only for a committed roster with
\* team division on and to members of it, and a draw produces weapon results
\* for exactly the committed member indices.
RosterStoreKeys == {"memberCount", "teamDivisionToggle"} \cup {MemberNameKey(i) : i \in 1..MaxMembers}
ConfirmStep == \E rnd \in ShuffleChoices(memberCountInput) : ConfirmMembers(rnd)
WeaponIndices(writes) ==
    {i \in 1..MaxMembers : \E j \in 1..Len(writes) : writes[j].slot = WeaponSlot(i)}

C2_RosterIsDraft ==
    [][(memberStateSnapshot # None /\ ~ ConfirmStep) =>
          /\ memberStateSnapshot' = memberStateSnapshot
          /\ \A k \in RosterStoreKeys : localStorage'[k] = localStorage[k]
          /\ currentTeams' # currentTeams =>
                 /\ memberStateSnapshot[1].teamDivisionEnabled
                 /\ DOMAIN currentTeams' \subseteq UpTo(memberStateSnapshot[1].memberCount)
          /\ (DrawRegistered /\ WeaponIndices(NewWrites) # {}) =>
                 WeaponIndices(NewWrites) = UpTo(memberStateSnapshot[1].memberCount)]_vars

\* C3 (as claimed): the applied and the draft selection hold keys of the
\* in-memory catalog only.
C3_SelectionsWithinCatalog ==
    \A t \in Types :
        /\ Keys(selectedItems[t]) \subseteq Keys(data[t])
        /\ Keys(tempFilterSelections[t]) \subseteq Keys(data[t])

\* C4 (as claimed): once the script has set the Apply button, it is shown iff
\* the draft and the applied selection differ as sets for some type.
C4_ApplyButtonIsDirtyFlag ==
    applyFilterSettingsBtn # "" => (applyFilterSettingsBtn = "block" <=> Dirty)

\* C5: apply-filter copies the draft into the applied selection of every
\* type, leaves the draft as it was, hides the Apply button with the two
\* selections equal; later edits of the draft leave the applied selection alone.
C5_Commit ==
    [][/\ ApplyStep =>
             /\ \A t \in Types : selectedItems'[t] = tempFilterSelections[t]
             /\ tempFilterSelections' = tempFilterSelections
             /\ ~ Dirty'
             /\ ~ FilterChanged(tempFilterSelections', selectedItems')
             /\ applyFilterSettingsBtn' = "none"
       /\ EditStep => selectedItems' = selectedItems]_vars

\* An applied weapon selection in an order only draft edits produce, just applied.
C5_Witness ==
    /\ selectedItems["weapon"] = <<"w2", "w1">>
    /\ tempFilterSelections["weapon"] = <<"w2", "w1">>
    /\ applyFilterSettingsBtn = "none"
    /\ StoredSelection # None
    /\ StoredSelection[1]["weapon"] = <<"w2", "w1">>

C7_Initialize ==
    [][ReinitStep =>
          \A t \in Types :
              /\ Keys(selectedItems'[t]) =
                     (IF localStorage'[SelectionKey] = None THEN Keys(data'[t])
                      ELSE Keys(data'[t]) \cap Keys(JSONparse(localStorage'[SelectionKey][1])[t]))
              /\ selectedItems'[t] =
                     Filter(data'[t], LAMBDA k : k \in Keys(selectedItems'[t]))
              /\ tempFilterSelections'[t] = selectedItems'[t]]_vars

\* Initialized from a stored selection that holds a key (w2) the catalog has lost.
C7_Witness ==
    /\ loadState = "done"
    /\ StoredSelection # None
    /\ Includes(StoredSelection[1]["weapon"], "w2")
    /\ data["weapon"] = <<"w1">>
    /\ selectedItems["weapon"] = <<"w1">>
    /\ tempFilterSelections["weapon"] = <<"w1">>

\* C8: the available items of a type are the catalog restricted, in catalog
\* order, to the keys of the applied selection, the whole catalog when the
\* applied selection is empty; a draw raises the no-items alert for a type
\* only when that leaves nothing.
EligibleKeys(t) ==
    IF selectedItems[t] = <<>> THEN Keys(data[t])
    ELSE Keys(data[t]) \cap Keys(selectedItems[t])
AvailableAsSpecified ==
    \A t \in Types :
        /\ Keys(GetAvailableItems(t)) = EligibleKeys(t)
        /\ GetAvailableItems(t) = Filter(data[t], LAMBDA k : k \in EligibleKeys(t))

DerivedKeys(t) ==
    IF StoredSelection = None THEN Keys(data[t])
    ELSE Keys(data[t]) \cap Keys(StoredSelection[1][t])
AgreesWithStore == \A t \in Types : Keys(selectedItems[t]) = DerivedKeys(t)

C9_CommittedIsPersisted == (Idle /\ ~ writeFailed) => AgreesWithStore

\* C9 (amended): while a selection is stored and no store write has failed,
\* the applied selection is the stored one restricted to the catalog keys;
\* the applied selection also is what the store yields whenever the page has
\* loaded, nothing is in flight and no load or refresh has reported a failure;
\* every apply-filter stores the applied selection.  A refresh-catalog removes
\* the stored selection when it starts and keeps the applied one, so that
\* after a failed refresh the store holds no selection until the next
\* apply-filter.
C9_PersistedWhileStored ==
    /\ []((~ writeFailed /\ StoredSelection # None) => AgreesWithStore)
    /\ []((Idle /\ ~ writeFailed /\ loadState = "done" /\ loadingStatus = "")
              => AgreesWithStore)
    /\ [][/\ ApplyFilterSettings(TRUE) =>
                 localStorage'[SelectionKey] = Some(JSONstringify(selectedItems'))
          /\ (refreshInFlight' = refreshInFlight + 1 /\ RefreshData) =>
                 /\ localStorage'[SelectionKey] = None
                 /\ selectedItems' = selectedItems]_vars

\* A selection applied after a failed refresh: stored, and agreeing again.
C9_Witness ==
    /\ Idle
    /\ loadingStatus = RefreshErrorText
    /\ StoredSelection # None
    /\ selectedItems["weapon"] = <<"w2">>
    /\ AgreesWithStore

C11_SelectAll ==
    [][\A t \in Types :
          (selectAllBox'[t] # selectAllBox[t] /\ HandleSelectAll(t)) =>
              /\ tempFilterSelections'[t] = (IF selectAllBox'[t] THEN data[t] ELSE <<>>)
              /\ Keys(tempFilterSelections'[t]) = (IF selectAllBox'[t] THEN Keys(data'[t]) ELSE {})
              /\ \A u \in Types \ {t} : tempFilterSelections'[u] = tempFilterSelections[u]
              /\ selectedItems' = selectedItems
              /\ localStorage' = localStorage
              /\ applyFilterSettingsBtn' = "block" <=> Dirty']_vars

\* Both weapons were deselected with select-all after {w2} had been applied:
\* the draft is empty, the applied selection still {w2}, the button shown.
C11_Witness ==
    /\ loadState = "done"
    /\ data["weapon"] = <<"w1", "w2">>
    /\ ~ selectAllBox["weapon"]
    /\ tempFilterSelections["weapon"] = <<>>
    /\ filterBoxes["weapon"] = [k \in {"w1", "w2"} |-> FALSE]
    /\ selectedItems["weapon"] = <<"w2">>
    /\ applyFilterSettingsBtn = "block"

\* C12: a load or refresh whose three requests succeed installs, and caches,
\* the fetched Rule and Stage catalogs without the items whose key is excluded
\* for that type, the other items in their fetched order, and the Weapon
\* catalog as fetched; no installed or cached Rule or Stage catalog holds an
\* excluded key.
CatalogFetched == {resp \in CatalogOutcomes : FetchSucceeded(resp)}
Excluded(t) == IF t \in DOMAIN EXCLUDED_ITEMS THEN EXCLUDED_ITEMS[t] ELSE {}
InstalledFrom(resp) ==
    \A t \in Types :
        /\ data'[t] = SelectSeq(resp[t][1], LAMBDA k : k \notin Excluded(t))
        /\ localStorage'[CACHE_KEYS[t]] = Some(JSONstringify(data'[t]))
        /\ t = "weapon" => data'[t] = resp[t][1]
NoExcludedKey ==
    \A t \in DOMAIN EXCLUDED_ITEMS :
        /\ Keys(data[t]) \cap EXCLUDED_ITEMS[t] = {}
        /\ localStorage[CACHE_KEYS[t]] # None =>
               Keys(JSONparse(localStorage[CACHE_KEYS[t]][1])) \cap EXCLUDED_ITEMS[t] = {}

C12_ExclusionFilter ==
    /\ []NoExcludedKey
    /\ [][\A resp \in CatalogFetched :
             \/ (loadState = "fetching" /\ loadState' = "done" /\ LoadFetched(resp, 3))
             \/ (refreshInFlight' = refreshInFlight - 1 /\ RefreshFetched(resp, 3))
             => InstalledFrom(resp)]_vars

\* Installed and cached from answers that listed the excluded keys first and
\* last, and a weapon with the key excluded for rules.
C12_Witness ==
    /\ loadState = "done"
    /\ data = [rule |-> <<"r2", "r1">>, stage |-> <<"s2", "s1">>,
               weapon |-> <<"w2", "tricolor", "w1">>]
    /\ \A t \in Types : localStorage[CACHE_KEYS[t]] = Some(JSONstringify(data[t]))

\* C13: when one of the three requests of a load or refresh fails, the step
\* replaces none of the three catalogs and none of the three cached catalog
\* blobs, whatever the other requests answered, and reports the failure.
CatalogFailed == CatalogOutcomes \ CatalogFetched
CatalogBlobs(ls) == [t \in Types |-> ls[CACHE_KEYS[t]]]

C13_AllOrNothing ==
    [][\A resp \in CatalogFailed :
          /\ (loadState = "fetching" /\ loadState' = "failed" /\ LoadFetched(resp, 3)) =>
                 /\ data' = data
                 /\ CatalogBlobs(localStorage') = CatalogBlobs(localStorage)
                 /\ loadingStatus' = LoadErrorText
          /\ (refreshInFlight' = refreshInFlight - 1 /\ RefreshFetched(resp, 3)) =>
                 /\ data' = data
                 /\ CatalogBlobs(localStorage') = CatalogBlobs(localStorage)
                 /\ loadingStatus' = RefreshErrorText]_vars

\* A refresh has failed over installed catalogs: they are still installed, and
\* the cache the refresh had cleared is still empty.
C13_Witness ==
    /\ loadingStatus = RefreshErrorText
    /\ refreshInFlight = 0
    /\ data = [rule |-> <<"r1", "r2">>, stage |-> <<"s1">>, weapon |-> <<"w1", "w2">>]
    /\ CatalogBlobs(localStorage) = [t \in Types |-> None]

\* C14 (as claimed): when the three requests of a load or refresh succeed and
\* a cache write throws, the operation still completes: no error status is
\* shown, the fetched catalogs are installed, and the applied and the draft
\* selection are initialized against them.
PartlyWritten == 0..2
InitializedAgainst(d) ==
    /\ selectedItems' = InitialSelection(d, localStorage')
    /\ tempFilterSelections' = selectedItems'
    /\ \A t \in Types : DOMAIN filterBoxes'[t] = Keys(d[t])

C14_CacheWriteIsBestEffort ==
    [][\A resp \in Fetched : \A written \in PartlyWritten :
          /\ (loadState = "fetching" /\ LoadFetched(resp, written)) =>
                 /\ loadState' = "done"
                 /\ loadingStatus' = loadingStatus
                 /\ data' = FilterFetched(resp)
                 /\ InitializedAgainst(data')
          /\ (refreshInFlight' = refreshInFlight - 1 /\ RefreshFetched(resp, written)) =>
                 /\ loadingStatus' = loadingStatus
                 /\ data' = FilterFetched(resp)
                 /\ InitializedAgainst(data')]_vars

\* C15: a page load takes the catalogs from the cache, without a request, when
\* all three catalog blobs are stored, parse and are not empty; when one of
\* them is missing, empty or unparsable it uses none of them and requests the
\* catalogs, which are then what the requests returned.
CachedWell(ls) ==
    \A t \in Types : /\ GetItem(ls, CACHE_KEYS[t]) # None
                     /\ IsJSON(GetItem(ls, CACHE_KEYS[t])[1])
                     /\ Len(JSONparse(GetItem(ls, CACHE_KEYS[t])[1])) > 0
BootedAsSpecified ==
    IF CachedWell(localStorage)
    THEN /\ loadState # "fetching"
         /\ data = [t \in Types |-> JSONparse(GetItem(localStorage, CACHE_KEYS[t])[1])]
    ELSE /\ loadState = "fetching"
         /\ data = EmptyByType
ReloadStep == refreshInFlight' = 0 /\ timers' = <<>> /\ alerted' = {} /\ Reload
\* No request is outstanding when the cache is complete, the catalogs are the
\* cached ones when it is, and empty or what the requests returned when not.
CacheDecides ==
    /\ loadState = "fetching" => (~ CachedWell(localStorage) /\ data = EmptyByType)
    /\ CachedWell(localStorage) =>
           data = [t \in Types |-> JSONparse(GetItem(localStorage, CACHE_KEYS[t])[1])]
    /\ ~ CachedWell(localStorage) =>
           \/ data = EmptyByType
           \/ \E resp \in Fetched : data = FilterFetched(resp)
C15_LoadFromCacheOrFetch ==
    /\ []CacheDecides
    /\ [][ReloadStep => BootedAsSpecified']_vars
    /\ [][(loadState = "fetching" /\ loadState' # "fetching") =>
             \/ loadState' = "failed" /\ data' = EmptyByType
             \/ \E resp \in Fetched : data' = FilterFetched(resp)]_vars
C15_Witness ==
    /\ loadState = "done"
    /\ data.stage = <<"s1", "s2">>
    /\ CachedWell(localStorage)
    /\ selectedItems = data

\* C16: a page load always ends with the roster inputs rendered for the count
\* in the count input and with the catalog load started, also when the store
\* cannot be read; it never ends in an uncaught exception.
C16_ReadFailureIsEmptyResult ==
    /\ loadState # "uncaught"
    /\ DOMAIN memberNameInputs = UpTo(ParseInt(memberCountInput))

\* C17: while the stored selection blob is unparsable or lacks the array of a
\* type, loaded catalogs are initialized (page load from the cache, or the end
\* of the initial fetch): the load is done, the applied selection holds all
\* catalog keys and the filter list shows every catalog item.
SelectionDefective(ls) ==
    /\ GetItem(ls, SelectionKey) # None
    /\ IF IsJSON(GetItem(ls, SelectionKey)[1])
       THEN \E t \in Types : t \notin DOMAIN JSONparse(GetItem(ls, SelectionKey)[1])
       ELSE GetItem(ls, SelectionKey)[1] # EmptyText
C17_DefectiveSelectionIsAbsent ==
    (SelectionDefective(localStorage) /\ data # EmptyByType) =>
        /\ loadState = "done"
        /\ selectedItems = data
        /\ \A t \in Types : DOMAIN filterBoxes[t] = Keys(data[t])

\* C18 as stated: after a successful manual refresh the applied and the draft
\* selection hold all keys of the new catalog.
RefreshStep == refreshInFlight' = refreshInFlight + 1 /\ RefreshData
C18_RefreshSelectsAll ==
    [][ReinitByRefresh => selectedItems' = data' /\ tempFilterSelections' = data']_vars

\* C18, amended: the step that issues a manual refresh leaves none of the three
\* catalog blobs and no selection blob in the store and changes no catalog or
\* selection; a successful manual refresh leaves the draft equal to the applied
\* selection, both within the new catalog, and both hold all its keys unless a
\* selection was stored again while the refresh was in flight (then they hold
\* the keys of the new catalog that this stored selection lists).
C18_ManualRefresh ==
    /\ [][RefreshStep =>
             /\ \A t \in Types : GetItem(localStorage', CACHE_KEYS[t]) = None
             /\ GetItem(localStorage', SelectionKey) = None
             /\ data' = data /\ selectedItems' = selectedItems
             /\ tempFilterSelections' = tempFilterSelections]_vars
    /\ [][ReinitByRefresh =>
             /\ tempFilterSelections' = selectedItems'
             /\ \A t \in Types : Keys(selectedItems'[t]) \subseteq Keys(data'[t])
             /\ StoredSelection = None => selectedItems' = data'
             /\ StoredSelection # None =>
                    \A t \in Types :
                        Keys(selectedItems'[t]) = Keys(data'[t]) \cap Keys(StoredSelection[1][t])]_vars
\* The initial load failed and a manual refresh then succeeded.
C18_Witness ==
    /\ loadState = "failed"
    /\ refreshInFlight = 0
    /\ data.weapon = <<"w1", "w2">>
    /\ selectedItems = data
    /\ tempFilterSelections = data
    /\ StoredSelection = None
    /\ \A t \in Types : GetItem(localStorage, CACHE_KEYS[t]) = Some(JSONstringify(data[t]))

\* C19: when a request of a load or refresh fails, the error it ends with
\* determines a failed resource (two sets of answers that end in the same
\* error and state have a failed resource in common), a status message is
\* shown, and the catalogs and the applied selection are unchanged.
Failing == FetchOutcomes \ Fetched
FailedOf(resp) == {t \in Types : resp[t] = None}
FetchStep(resp) == LoadFetched(resp, 3) \/ RefreshFetched(resp, 3)
RequestFailed == fetchError' # None /\ fetchError' # Some(QuotaError)
C19_FetchErrorIdentifiesResource ==
    /\ [][RequestFailed =>
             /\ loadingStatus' \in {LoadErrorText, RefreshErrorText}
             /\ data' = data
             /\ selectedItems' = selectedItems]_vars
    /\ [][RequestFailed =>
             \A r1, r2 \in Failing :
                 (FetchStep(r1) /\ FetchStep(r2)) => FailedOf(r1) \cap FailedOf(r2) # {}]_vars

\* C20: after every roster edit the Confirm button is shown iff the roster in
\* the inputs differs from the committed one (memberStateSnapshot) in the
\* member count, in the team toggle, or in the name of a member index, a name
\* held by one side only being a difference; the count is compared with the
\* committed count.
RosterDiffers ==
    IF memberStateSnapshot = None THEN TRUE
    ELSE LET committed == memberStateSnapshot[1]
         IN  \/ ParseInt(memberCountInput) # committed.memberCount
             \/ teamDivisionToggle # committed.teamDivisionEnabled
             \/ DOMAIN memberNameInputs # DOMAIN committed.memberNames
             \/ \E i \in DOMAIN memberNameInputs \cap DOMAIN committed.memberNames :
                    memberNameInputs[i] # committed.memberNames[i]
RosterEditStep ==
    /\ memberStateSnapshot' = memberStateSnapshot
    /\ \/ memberCountInput' # memberCountInput
       \/ memberNameInputs' # memberNameInputs
       \/ teamDivisionToggle' # teamDivisionToggle
C20_RosterIsDirty ==
    [][RosterEditStep => (confirmMembersBtn' = "block" <=> RosterDiffers')]_vars

\* C21: after confirmMembers() the committed roster equals the roster in the
\* inputs, the store holds the committed count, the committed name of every
\* member 1..count and the committed toggle, the Confirm button is hidden and
\* the roster is not dirty, and the team assignment covers exactly the
\* committed members (ceil(count/2) of them alpha) when the toggle is on and is
\* empty when it is off.
Pending == MemberState(memberCountInput, memberNameInputs, teamDivisionToggle)
Alpha(teams) == {i \in DOMAIN teams : teams[i] = "alpha"}
Bravo(teams) == {i \in DOMAIN teams : teams[i] = "bravo"}
DividedOver(teams, n) ==
    /\ DOMAIN teams = UpTo(n)
    /\ Cardinality(Alpha(teams)) = (IF n = NaN THEN 0 ELSE CeilHalf(n))
    /\ Alpha(teams) \cup Bravo(teams) = UpTo(n)
RosterStored(ls, committed) ==
    /\ GetItem(ls, "memberCount") = Some(String(committed.memberCount))
    /\ GetItem(ls, "teamDivisionToggle") =
           Some(IF committed.teamDivisionEnabled THEN "true" ELSE "false")
    /\ \A i \in UpTo(committed.memberCount) :
           GetItem(ls, MemberNameKey(i)) = Some(committed.memberNames[i])
C21_RosterCommit ==
    [][(confirmMembersBtn' = "none" /\ ConfirmStep) =>
          /\ memberStateSnapshot' = Some(Pending')
          /\ Pending' = Pending
          /\ RosterStored(localStorage', memberStateSnapshot'[1])
          /\ ~ RosterDiffers'
          /\ IF teamDivisionToggle'
             THEN DividedOver(currentTeams', memberStateSnapshot'[1].memberCount)
             ELSE currentTeams' = NoTeams]_vars

\* C22: when a store write throws during applyFilterSettings() or
\* confirmMembers(), the commit still completes in memory: the applied
\* selection is the draft and the Apply button is hidden, respectively the
\* committed roster is the roster in the inputs, the Confirm button is hidden
\* and the team assignment is made (toggle on) or empty (toggle off).
WriteFails == writeFailed' /\ ~ writeFailed
C22_CommitSurvivesWriteFailure ==
    [][WriteFails =>
          /\ ApplyFilterSettings(FALSE) =>
                 /\ selectedItems' = tempFilterSelections
                 /\ tempFilterSelections' = tempFilterSelections
                 /\ applyFilterSettingsBtn' = "none"
          /\ (\E written \in 0..(MaxMembers + 1) : ConfirmMembersThrows(written)) =>
                 /\ memberStateSnapshot' = Some(Pending')
                 /\ confirmMembersBtn' = "none"
                 /\ IF teamDivisionToggle'
                    THEN DOMAIN currentTeams' = UpTo(ParseInt(memberCountInput'))
                    ELSE currentTeams' = NoTeams]_vars
\* The part of C22 about applyFilterSettings() alone.
C22_ApplySurvivesWriteFailure ==
    [][(WriteFails /\ ApplyFilterSettings(FALSE)) =>
          /\ selectedItems' = tempFilterSelections
          /\ tempFilterSelections' = tempFilterSelections
          /\ applyFilterSettingsBtn' = "none"
          /\ loadingStatus' = loadingStatus]_vars

\* C23: when the roster is first committed by the end of the initialization,
\* the committed roster is the stored one (the default count and the
\* placeholder names where nothing is stored), the inputs hold the same roster
\* and the Confirm button is not shown, whatever was done while the catalogs
\* were being fetched.
StoredCount(ls) ==
    IF Truthy(GetItem(ls, "memberCount")) THEN GetItem(ls, "memberCount")[1]
    ELSE String(DefaultMemberCount)
StoredRoster(ls) ==
    MemberState(StoredCount(ls), InitialMemberNames(StoredCount(ls), ls),
                GetItem(ls, "teamDivisionToggle") = Some("true"))
InitializationCompletes ==
    /\ loadState = "fetching" /\ loadState' = "done"
    /\ memberStateSnapshot' # memberStateSnapshot
C23_RosterInitialize ==
    [][InitializationCompletes =>
          /\ memberStateSnapshot' = Some(StoredRoster(localStorage'))
          /\ Pending' = StoredRoster(localStorage')
          /\ ~ RosterDiffers'
          /\ confirmMembersBtn' # "block"]_vars

\* C24: whenever teams are divided over n >= 1 members, for every outcome of
\* the shuffle the alpha list has ceil(n/2) names, the bravo list the other
\* n - ceil(n/2), and the two lists together hold every member's name as often
\* as the inputs do; for n = 1 alpha is the sole member and bravo is empty.
Count(s, x) == Cardinality({i \in 1..Len(s) : s[i] = x})
SameMultiset(s, t) == Len(s) = Len(t) /\ \A i \in 1..Len(s) : Count(s, s[i]) = Count(t, s[i])
TeamsDivided == teamDivisionToggle /\ ParseInt(memberCountInput) >= 1 /\ ConfirmStep
ListsAsSpecified(n, members, alpha, bravo) ==
    /\ 2 * Len(alpha) \in {n, n + 1}
    /\ Len(bravo) = n - Len(alpha)
    /\ SameMultiset(alpha \o bravo, members)
    /\ n = 1 => (alpha = members /\ bravo = <<>>)
C24_DivideTeams ==
    [][TeamsDivided =>
          \A rnd \in ShuffleChoices(memberCountInput) :
              ListsAsSpecified(ParseInt(memberCountInput),
                               Members(memberCountInput, memberNameInputs),
                               AlphaTeam(memberCountInput, memberNameInputs, rnd),
                               BravoTeam(memberCountInput, memberNameInputs, rnd))]_vars
\* Two members with different names have been divided: one alpha, one bravo.
C24_Witness ==
    /\ memberStateSnapshot # None
    /\ memberStateSnapshot[1].memberCount = 2
    /\ memberStateSnapshot[1].teamDivisionEnabled
    /\ memberNameInputs = <<"X", "member2">>
    /\ currentTeams = <<"bravo", "alpha">>

\* C25: after every team division over n >= 1 members each index 1..n has a
\* team, exactly ceil(n/2) indices are alpha and the others bravo, also when
\* members share a name.
C25_TeamsByIndex ==
    [][TeamsDivided => DividedOver(currentTeams', ParseInt(memberCountInput'))]_vars

\* C26: whenever a list of members is shuffled, every sequence of swap choices
\* (one index j <= i for each position i from the last down to the second)
\* gives a list of the same length with the same multiset of names, every
\* arrangement of the names is the result of some sequence of choices, and the
\* names in the inputs are left as they were.
Arrangements(L) == {q \in [1..Len(L) -> Keys(L)] : SameMultiset(q, L)}
ShuffleAsSpecified(L) ==
    /\ \A rnd \in RandomChoices(Len(L)) :
           /\ \A i \in 2..Len(L) : rnd[i] \in 1..i
           /\ Len(ShuffleArray(L, rnd)) = Len(L)
           /\ SameMultiset(ShuffleArray(L, rnd), L)
    /\ \A q \in Arrangements(L) : \E rnd \in RandomChoices(Len(L)) : ShuffleArray(L, rnd) = q
C26_Shuffle ==
    [][TeamsDivided =>
          /\ ShuffleAsSpecified(Members(memberCountInput, memberNameInputs))
          /\ memberNameInputs' = memberNameInputs]_vars
\* The shuffle has swapped two members: member 2 was drawn first.
C26_Witness ==
    /\ memberStateSnapshot # None
    /\ memberStateSnapshot[1].memberCount = 2
    /\ memberNameInputs = <<"member1", "member2">>
    /\ teamDivisionToggle
    /\ confirmMembersBtn = "none"
    /\ currentTeams = <<"bravo", "alpha">>

\* C27: selectRandomItem gives null for an empty pool and otherwise the item at
\* the drawn index, an item of the pool, each item of the pool for some index;
\* the items a draw registers come from the pool of their type, and the draw
\* leaves the catalogs and the applied selection (hence the pool) as they were.
DrawOneAsSpecified(pool) ==
    IF Len(pool) = 0 THEN SelectRandomItem(pool, 1) = Null
    ELSE /\ \A index \in 1..Len(pool) :
                /\ SelectRandomItem(pool, index) = pool[index]
                /\ SelectRandomItem(pool, index) \in Keys(pool)
         /\ \A k \in Keys(pool) : \E index \in 1..Len(pool) : SelectRandomItem(pool, index) = k
C27_DrawOne ==
    /\ [](\A t \in Types : DrawOneAsSpecified(GetAvailableItems(t)))
    /\ [][DrawRegistered =>
             /\ \A j \in 1..Len(NewWrites) :
                    NewWrites[j].item \in Keys(GetAvailableItems(SlotType(NewWrites[j].slot)))
             /\ \A t \in Types : GetAvailableItems(t)' = GetAvailableItems(t)]_vars
\* The second of two available weapons has been drawn for member 1.
C27_Witness ==
    /\ GetAvailableItems("weapon") = <<"w1", "w2">>
    /\ "1-weapon" \in DOMAIN currentResults
    /\ currentResults["1-weapon"] = "w2"
    /\ timers = <<>>

\* C28: a draw over a non-empty pool registers, for rule and stage, exactly
\* one result under the common slot of the type, and for weapon exactly one
\* result for each member index 1..memberCount of the committed roster and
\* for no other index, each an item of the weapon pool.
WritesOf(writes, t) == SelectSeq(writes, LAMBDA w : SlotType(w.slot) = t)
C28_RunDraw ==
    [][DrawRegistered =>
          /\ \A t \in {"rule", "stage"} :
                 Len(WritesOf(NewWrites, t)) > 0 =>
                     /\ Len(WritesOf(NewWrites, t)) = 1
                     /\ WritesOf(NewWrites, t)[1].slot = CommonSlot(t)
                     /\ WritesOf(NewWrites, t)[1].item \in Keys(GetAvailableItems(t))
          /\ (Len(WritesOf(NewWrites, "weapon")) > 0 /\ memberStateSnapshot # None) =>
                 /\ WeaponIndices(NewWrites) = UpTo(memberStateSnapshot[1].memberCount)
                 /\ Len(WritesOf(NewWrites, "weapon")) = Cardinality(WeaponIndices(NewWrites))
                 /\ \A j \in 1..Len(WritesOf(NewWrites, "weapon")) :
                        WritesOf(NewWrites, "weapon")[j].item \in Keys(GetAvailableItems("weapon"))]_vars

\* C29: a draw over an empty pool is refused at once with an alert naming the
\* type, and the refusal changes nothing: results, teams, selection, roster
\* and store are as before and no result of that type is registered; so for
\* a single draw and for every type of a draw-all.
DrawOneStep(t) == \E pick \in PickChoices(t) : RunRoulette(t, pick)
DrawAllStep ==
    \E pr \in PickChoices("rule"), ps \in PickChoices("stage"), pw \in PickChoices("weapon") :
        \E rnd \in ShuffleChoices(memberCountInput) : RunAllRoulette(pr, ps, pw, rnd)
NothingMutated ==
    /\ currentResults' = currentResults
    /\ currentTeams' = currentTeams
    /\ selectedItems' = selectedItems
    /\ tempFilterSelections' = tempFilterSelections
    /\ rosterVars' = rosterVars
    /\ localStorage' = localStorage
NoWriteFor(t) ==
    DrawRegistered => Len(WritesOf(NewWrites, t)) = 0
C29_EmptyPoolRefused ==
    [][\A t \in Types :
          (Len(GetAvailableItems(t)) = 0 /\ (DrawOneStep(t) \/ DrawAllStep)) =>
              /\ t \in alerted'
              /\ NothingMutated
              /\ NoWriteFor(t)]_vars
\* The same for the single draws alone.
C29_SingleDrawRefused ==
    [][\A t \in Types :
          (Len(GetAvailableItems(t)) = 0 /\ DrawOneStep(t)) =>
              /\ alerted' = {t}
              /\ NothingMutated
              /\ timers' = timers]_vars

\* C30: right after apply-filter, confirm-roster or a catalog
\* (re)initialization the recorded results have no entry; in particular no
\* weapon entry is kept for a member index above the current count, and no
\* entry holds an item outside the filter just committed.
SlotMember(slot) == CHOOSE i \in 1..MaxMembers : slot = WeaponSlot(i)
ResultsWithinRoster ==
    \A s \in DOMAIN currentResults :
        SlotType(s) = "weapon" =>
            (ParseInt(memberCountInput) # NaN /\ SlotMember(s) <= ParseInt(memberCountInput))
ResultsWithinFilter ==
    \A s \in DOMAIN currentResults :
        currentResults[s] \in Keys(GetAvailableItems(SlotType(s)))
C30_ReinitClearsResults ==
    [][(ApplyStep \/ ConfirmStep \/ ReinitStep) =>
          /\ currentResults' = <<>>
          /\ ResultsWithinRoster'
          /\ ResultsWithinFilter']_vars

\* C31: whenever the committed roster has team division disabled the team
\* assignment is the empty mapping, and whenever it has it enabled the team
\* assignment is a division over exactly the committed members.
C31_TeamsFollowCommitted ==
    memberStateSnapshot # None =>
        IF memberStateSnapshot[1].teamDivisionEnabled
        THEN DividedOver(currentTeams, memberStateSnapshot[1].memberCount)
        ELSE currentTeams = NoTeams
\* The half about a disabled division alone.
C31_DisabledMeansNoTeams ==
    (memberStateSnapshot # None /\ ~ memberStateSnapshot[1].teamDivisionEnabled) =>
        currentTeams = NoTeams

\* C32: a draw over a non-empty pool has recorded its results when it
\* returns: the rule or stage drawn is in the results at the end of the
\* step, and no write of the draw is left to a timer.
C32_DrawsRunToCompletion ==
    [][\A t \in Types :
          (Len(GetAvailableItems(t)) > 0 /\ (DrawOneStep(t) \/ DrawAllStep)) =>
              /\ timers' = <<>>
              /\ t \in {"rule", "stage"} =>
                     /\ CommonSlot(t) \in DOMAIN currentResults'
                     /\ currentResults'[CommonSlot(t)] \in Keys(GetAvailableItems(t))]_vars

\* C33: with every request answered in the end, the load ends and, while a
\* refresh is outstanding, a refresh ends; each ends either with the fetched
\* catalogs installed and the selection initialized or with one error
\* report; and the number of outstanding fetches grows only by the user's
\* refresh-catalog (a failed fetch is not issued again).
Requests == (IF loadState = "fetching" THEN 1 ELSE 0) + refreshInFlight
SelectionInitialized ==
    /\ tempFilterSelections = selectedItems
    /\ \A t \in Types : Keys(selectedItems[t]) \subseteq Keys(data[t])
Installed == (\E resp \in Fetched : data' = FilterFetched(resp)) /\ SelectionInitialized'
LoadAnswered == loadState = "fetching" /\ \E resp \in FetchOutcomes : LoadFetched(resp, 3)
RefreshAnswered == refreshInFlight > 0 /\ \E resp \in FetchOutcomes : RefreshFetched(resp, 3)
C33_FetchesEndOnce ==
    /\ (loadState = "fetching") ~> (loadState # "fetching")
    /\ ([]<>(refreshInFlight = 0) \/ []<><<refreshInFlight' < refreshInFlight>>_vars)
    /\ [][LoadAnswered =>
             /\ Requests' = Requests - 1
             /\ \/ loadState' = "done" /\ Installed /\ loadingStatus' = loadingStatus
                \/ loadState' = "failed" /\ loadingStatus' = LoadErrorText]_vars
    /\ [][RefreshAnswered =>
             /\ Requests' = Requests - 1
             /\ \/ Installed /\ loadingStatus' = loadingStatus
                \/ loadingStatus' = RefreshErrorText]_vars
    /\ [][Requests' > Requests => RefreshData]_vars
\* A failed refresh has ended with its error report and nothing is outstanding.
C33_Witness ==
    /\ loadState = "done"
    /\ refreshInFlight = 0
    /\ loadingStatus = RefreshErrorText
    /\ fetchError # None

\* C34: apply-filter leaves the committed roster, the pending roster and the
\* roster keys of the store as they are and renders no result slot for a
\* pending roster edit; confirm-roster leaves the committed selection, the
\* pending selection and the stored selection as they are; a draw leaves all
\* of them as they are.
RosterUntouched ==
    /\ rosterVars' = rosterVars
    /\ \A k \in RosterStoreKeys : localStorage'[k] = localStorage[k]
SelectionUntouched ==
    /\ selectedItems' = selectedItems
    /\ tempFilterSelections' = tempFilterSelections
    /\ localStorage'[CACHE_KEYS.selectedItems] = localStorage[CACHE_KEYS.selectedItems]
SlotsOfCommitted ==
    memberStateSnapshot # None =>
        \/ resultCards' = resultCards
        \/ resultCards' = UpTo(memberStateSnapshot[1].memberCount)
C34_MachinesIndependent ==
    [][/\ ApplyStep => (RosterUntouched /\ SlotsOfCommitted)
       /\ ConfirmStep => SelectionUntouched
       /\ (DrawAllStep \/ \E t \in Types : DrawOneStep(t)) =>
              (RosterUntouched /\ SelectionUntouched)]_vars
\* The same without the rendered result slots.
C34_StatesIndependent ==
    [][/\ ApplyStep => RosterUntouched
       /\ ConfirmStep => SelectionUntouched
       /\ (DrawAllStep \/ \E t \in Types : DrawOneStep(t)) =>
              (RosterUntouched /\ SelectionUntouched)]_vars

\* C35: the committed member count, and the member count in the store when
\* one is stored, is an integer of at least 1.
C35_CountAtLeastOne ==
    /\ memberStateSnapshot # None => memberStateSnapshot[1].memberCount >= 1
    /\ GetItem(localStorage, "memberCount") # None =>
           ParseInt(GetItem(localStorage, "memberCount")[1]) >= 1

\* C36: no result write of an earlier draw is left to land after an
\* apply-filter, a confirm-roster or a completed refresh: at the end of such
\* a step no deferred write is pending (every pending write runs later and
\* records its result).
C36_NoWriteAfterReinit ==
    [][(Len(timers) > 0 /\ (ApplyStep \/ ConfirmStep \/ ReinitByRefresh)) =>
          timers' = <<>>]_vars

\* C37: also when refreshes overlap, every refresh that ends successfully
\* leaves the three catalogs those of one answer set, each cached blob equal
\* to its catalog, and the committed and the pending selection equal and
\* within the keys of those catalogs; so in whatever order the answers of two
\* outstanding refreshes arrive.
Coherent ==
    /\ \E resp \in Fetched : data = FilterFetched(resp)
    /\ \A t \in Types : GetItem(localStorage, CACHE_KEYS[t]) = Some(JSONstringify(data[t]))
    /\ SelectionInitialized
RefreshSucceeded ==
    /\ refreshInFlight > 0 /\ fetchError' = None
    /\ \E resp \in Fetched : RefreshFetched(resp, 3)
SetCountStep == \E n \in 1..MaxMembers : SetMemberCount(n)
C38_CountChangeKeepsNames ==
    [][(memberCountInput' # memberCountInput /\ SetCountStep) =>
          /\ \A i \in DOMAIN memberNameInputs \cap DOMAIN memberNameInputs' :
                 memberNameInputs'[i] = memberNameInputs[i]
          /\ memberStateSnapshot' = memberStateSnapshot
          /\ teamDivisionToggle' = teamDivisionToggle
          /\ localStorage' = localStorage]_vars
====
